---- MODULE Spec2Model ----
(***************************************************************************)
(* AssetStorage (src/src/storage.js): one store instance shared by several *)
(* asynchronous calls.  Every `await` of the source is a suspension point: *)
(* the code up to it runs in the action that starts or resumes the call,   *)
(* and the awaited operation settles (succeeds or fails) in an action of   *)
(* its own.  The embedded node, the remote pinning services and the local  *)
(* file system are the environment: each awaited request may fail.         *)
(***************************************************************************)
EXTENDS Integers, Sequences, FiniteSets, TLC

\* ------------------------------------------------------------ bounds
\* The number of calls made on the instance; they may overlap.
NumCalls == 2
\* The largest number of pinning services a configuration lists.
MaxServices == 2
\* The number of awaited requests (node creation, registration, file read,
\* add, query, pin request, cat) the environment answers in one behaviour,
\* and the number of them it fails.
MaxRequests == 10
MaxFaults == 1

Calls == 1..NumCalls

\* The names a configuration may list, pairwise distinct.
ServiceNames == <<"A", "B", "C", "D">>

\* A configuration: the first n names, n in 0..MaxServices.
Configs == {SubSeq(ServiceNames, 1, n) : n \in 0..MaxServices}

\* Strings are sequences of characters.
Scheme == <<"i", "p", "f", "s", ":", "/", "/">>
CIDs == {<<"X">>, <<"Y">>}

\* The strings handed to get: bare identifiers, full URIs, and a near miss.
URIs == {<<"X">>, Scheme \o <<"X">>, <<"i", "p", "f", "s", ":", "X">>}

\* Asset bytes, and the node's content addressing of them.
Contents == {"bytesX"}
CidOf(content) == IF content = "bytesX" THEN <<"X">> ELSE <<"Y">>

NoData == "null"
NoCid == <<>>

Range(s) == {s[i] : i \in 1..Len(s)}

\* ------------------------------------------------------------ state
VARIABLES
    config,           \* this.config.pinningServices, as the list of names
    initialized,      \* this._initialized
    ipfs,             \* this.ipfs: 0 is undefined, c the node created by call c
    pinningServices,  \* this.pinningServices
    call,             \* per call: operation, position, locals, per-backend promises
    pinned,           \* the remote backends' pin records: <<cid, service>>
    settled,          \* requests the environment has answered so far
    faults            \* requests the environment has failed so far

vars == <<config, initialized, ipfs, pinningServices, call, pinned, settled, faults>>

NewCall ==
    [op |-> "none", pc |-> "idle", arg |-> NoCid, cid |-> NoCid, data |-> NoData,
     inPin |-> FALSE, idx |-> 0, targets |-> <<>>, sub |-> <<>>,
     err |-> "none",
     \* history of the call, read by the properties only
     nCreate |-> 0, afterFail |-> FALSE]

\* constructor(config)
Init ==
    /\ config \in Configs
    /\ initialized = FALSE
    /\ ipfs = 0
    /\ pinningServices = <<>>
    /\ call = [c \in Calls |-> NewCall]
    /\ pinned = {}
    /\ settled = 0
    /\ faults = 0

\* ------------------------------------------------------------ helpers
SetCall(c, r) == call' = [call EXCEPT ![c] = r]

\* An awaited request settles: fulfilled, or rejected while the environment
\* still has a failure to deal.
Settles(ok) ==
    /\ settled < MaxRequests
    /\ settled' = settled + 1
    /\ ok \/ faults < MaxFaults
    /\ faults' = IF ok THEN faults ELSE faults + 1

AnyInitFailed == \E d \in Calls : call[d].err = "init"

\* The instance was built by MakeAssetStorage: a caller holds it only once
\* MakeAssetStorage has resolved (line 163).
ViaFactory == call[1].op = "MakeAssetStorage"

\* Mutant: MakeAssetStorage hands the instance out without awaiting init.
CanStartBeforeInit(c) ==
    /\ call[c].pc = "idle"
    /\ c > 1 => call[c - 1].pc # "idle"

\* Calls are numbered in the order they are made.
CanStart(c) ==
    /\ call[c].pc = "idle"
    /\ c > 1 => call[c - 1].pc # "idle"
    /\ (c > 1 /\ ViaFactory) => call[1].pc = "done"

Begin(c, opname) == [call[c] EXCEPT !.op = opname, !.afterFail = AnyInitFailed]

\* cidOrURI.startsWith('ipfs://')
StartsWith(s, prefix) ==
    /\ Len(s) >= Len(prefix)
    /\ SubSeq(s, 1, Len(prefix)) = prefix

\* Mutant: the prefix is never stripped.
StripSchemeNever(cidOrURI) == cidOrURI

\* get, lines 135-138: strip the scheme prefix if present.
StripScheme(cidOrURI) ==
    IF StartsWith(cidOrURI, Scheme)
    THEN SubSeq(cidOrURI, Len(Scheme) + 1, Len(cidOrURI))
    ELSE cidOrURI

\* ipfs.pin.remote.ls({cid: [cid], service}): the backend's matching records.
RemoteLs(cid, service) == {r \in pinned : r[1] = cid /\ r[2] = service}

\* isPinned: true on the first record, false when there is none.
isPinned(cid, service) == RemoteLs(cid, service) # {}

\* ------------------------------------------------------------ init
\* init() up to its first await (lines 33-38): return at once when the flag
\* is set, else request node creation.
initCall(r) ==
    IF initialized
    THEN [r EXCEPT !.pc = "initDone"]
    ELSE [r EXCEPT !.pc = "create", !.nCreate = @ + 1]

\* Mutant: the rejection is swallowed and the operation carries on.
InitFailsSwallowed(r) == [r EXCEPT !.pc = "initDone", !.err = "init"]

\* A rejected `await this.init()` (lines 69, 96, 162): the operation rejects.
InitFails(r) == [r EXCEPT !.pc = "failed", !.err = "init"]

\* Mutant: the flag is set before the registrations are done.
RegisterFromFlagFirst(c, k) ==
    /\ initialized' = TRUE
    /\ IF k <= Len(config)
       THEN SetCall(c, [call[c] EXCEPT !.pc = "register", !.idx = k])
       ELSE SetCall(c, [call[c] EXCEPT !.pc = "initDone"])

\* The registration loop from position k on (lines 40-52): request the k-th
\* registration (idx is the position of the call's latest request), or set
\* the flag when no service is left.
RegisterFrom(c, k) ==
    IF k <= Len(config)
    THEN /\ SetCall(c, [call[c] EXCEPT !.pc = "register", !.idx = k])
         /\ UNCHANGED initialized
    ELSE /\ initialized' = TRUE
         /\ SetCall(c, [call[c] EXCEPT !.pc = "initDone"])

init(c) ==
    /\ CanStart(c)
    /\ ~ViaFactory \/ c > 1
    /\ SetCall(c, initCall(Begin(c, "init")))
    /\ UNCHANGED <<config, initialized, ipfs, pinningServices, pinned, settled, faults>>

MakeAssetStorage(c) ==
    /\ CanStart(c)
    /\ c = 1
    /\ SetCall(c, initCall(Begin(c, "MakeAssetStorage")))
    /\ UNCHANGED <<config, initialized, ipfs, pinningServices, pinned, settled, faults>>

\* IPFS.create settles (line 38).
IPFSCreateSettles(c, ok) ==
    /\ Settles(ok)
    /\ call[c].pc = "create"
    /\ IF ok
       THEN /\ ipfs' = c
            /\ RegisterFrom(c, 1)
       ELSE /\ SetCall(c, InitFails(call[c]))
            /\ UNCHANGED <<initialized, ipfs>>
    /\ UNCHANGED <<config, pinningServices, pinned>>

\* Mutant: a failed registration is skipped and the loop goes on.
ServiceAddSkipsFailure(c, ok) ==
    /\ Settles(ok)
    /\ call[c].pc = "register"
    /\ IF ok
       THEN /\ pinningServices' = Append(pinningServices, config[call[c].idx])
            /\ RegisterFrom(c, call[c].idx + 1)
       ELSE /\ UNCHANGED pinningServices
            /\ RegisterFrom(c, call[c].idx + 1)
    /\ UNCHANGED <<config, ipfs, pinned>>

\* pin.remote.service.add settles (lines 47-48).
ServiceAddSettles(c, ok) ==
    /\ Settles(ok)
    /\ call[c].pc = "register"
    /\ IF ok
       THEN /\ pinningServices' = Append(pinningServices, config[call[c].idx])
            /\ RegisterFrom(c, call[c].idx + 1)
       ELSE /\ SetCall(c, InitFails(call[c]))
            /\ UNCHANGED <<initialized, pinningServices>>
    /\ UNCHANGED <<config, ipfs, pinned>>

\* The caller of init() or MakeAssetStorage() resumes (lines 53, 163).
initReturns(c) ==
    /\ call[c].pc = "initDone"
    /\ call[c].op \in {"init", "MakeAssetStorage"}
    /\ SetCall(c, [call[c] EXCEPT !.pc = "done"])
    /\ UNCHANGED <<config, initialized, ipfs, pinningServices, pinned, settled, faults>>

\* ------------------------------------------------------------ pin
\* pin(cid) up to its first await (lines 95-96).
pin(c, cid) ==
    /\ CanStart(c)
    /\ ~ViaFactory \/ c > 1
    /\ SetCall(c, initCall([Begin(c, "pin") EXCEPT !.cid = cid, !.inPin = TRUE]))
    /\ UNCHANGED <<config, initialized, ipfs, pinningServices, pinned, settled, faults>>

\* The promise _pinIfUnpinned(cid, service) up to its first await: isPinned
\* has issued its query (lines 106-108, 118-119, 128).  A promise is
\* "query" (query in flight), "pinning" (pin request in flight), "skipped"
\* (fulfilled: already pinned, line 122), "pinned" (fulfilled: the pin
\* request completed) or "failed" (rejected).
NewSub(cid, service) == "query"

\* Mutant: the loop starts the first service's promise only.
FanOutFirstOnly(cid, services) == [i \in 1..1 |-> NewSub(cid, services[1])]

\* The fan-out (lines 105-108): one promise per registered service.
FanOut(cid, services) == [i \in 1..Len(services) |-> NewSub(cid, services[i])]

\* Mutant: no registered service is an error.
pinBodyThrowsOnEmpty(r) ==
    IF Len(pinningServices) < 1
    THEN [r EXCEPT !.pc = "failed", !.err = "nopin"]
    ELSE [r EXCEPT !.pc = "fanout",
                   !.targets = pinningServices,
                   !.sub = FanOut(r.cid, pinningServices)]

\* pin after `await this.init()` (lines 98-110).
pinBody(r) ==
    IF Len(pinningServices) < 1
    THEN [r EXCEPT !.pc = "done"]
    ELSE [r EXCEPT !.pc = "fanout",
                   !.targets = pinningServices,
                   !.sub = FanOut(r.cid, pinningServices)]

pinAfterInit(c) ==
    /\ call[c].pc = "initDone"
    /\ call[c].inPin
    /\ SetCall(c, pinBody(call[c]))
    /\ UNCHANGED <<config, initialized, ipfs, pinningServices, pinned, settled, faults>>

\* Mutant: the early return of line 120-123 is missing.
AfterQueryAlwaysPins(s, isPinnedResult) == "pinning"

\* _pinIfUnpinned after the query answered (lines 120-124).
AfterQuery(s, isPinnedResult) ==
    IF isPinnedResult THEN "skipped" ELSE "pinning"

\* Mutant: a promise skips its pin request when another call has one in
\* flight for the same identifier and service.
lsSettlesCoalesces(c, i, ok) ==
    /\ Settles(ok)
    /\ i \in 1..Len(call[c].sub)
    /\ call[c].sub[i] = "query"
    /\ SetCall(c, [call[c] EXCEPT !.sub[i] =
            IF ok
            THEN IF \E d \in Calls \ {c} : \E j \in 1..Len(call[d].sub) :
                        /\ call[d].cid = call[c].cid
                        /\ call[d].targets[j] = call[c].targets[i]
                        /\ call[d].sub[j] = "pinning"
                 THEN "skipped"
                 ELSE AfterQuery(@, isPinned(call[c].cid, call[c].targets[i]))
            ELSE "failed"])
    /\ UNCHANGED <<config, initialized, ipfs, pinningServices, pinned>>

\* The query of the i-th promise settles (lines 119, 128-131).
lsSettles(c, i, ok) ==
    /\ Settles(ok)
    /\ i \in 1..Len(call[c].sub)
    /\ call[c].sub[i] = "query"
    /\ SetCall(c, [call[c] EXCEPT !.sub[i] =
            IF ok
            THEN AfterQuery(@, isPinned(call[c].cid, call[c].targets[i]))
            ELSE "failed"])
    /\ UNCHANGED <<config, initialized, ipfs, pinningServices, pinned>>

\* The pin request of the i-th promise settles (line 124).
remoteAddSettles(c, i, ok) ==
    /\ Settles(ok)
    /\ i \in 1..Len(call[c].sub)
    /\ call[c].sub[i] = "pinning"
    /\ SetCall(c, [call[c] EXCEPT !.sub[i] = IF ok THEN "pinned" ELSE "failed"])
    /\ pinned' = IF ok
                 THEN pinned \cup {<<call[c].cid, call[c].targets[i]>>}
                 ELSE pinned
    /\ UNCHANGED <<config, initialized, ipfs, pinningServices>>

SubsOf(r) == {r.sub[i] : i \in 1..Len(r.sub)}

InFlight(r) == \E s \in SubsOf(r) : s \in {"query", "pinning"}

\* pin returns to its caller (addAsset line 86-87, or the caller of pin).
pinReturn(r) ==
    [r EXCEPT !.pc = "done"]

\* Promise.all resolves: every promise fulfilled (lines 110-111).
AllFulfilled(r) == \A s \in SubsOf(r) : s \in {"skipped", "pinned"}

\* Promise.all rejects: some promise rejected (lines 110, 112-115).
SomeRejected(r) == \E s \in SubsOf(r) : s = "failed"

pinResolves(c) ==
    /\ call[c].pc = "fanout"
    /\ AllFulfilled(call[c])
    /\ SetCall(c, pinReturn(call[c]))
    /\ UNCHANGED <<config, initialized, ipfs, pinningServices, pinned, settled, faults>>

\* Mutant: the catch rethrows, so pin rejects.
pinCatchesPropagates(c) ==
    /\ call[c].pc = "fanout"
    /\ SomeRejected(call[c])
    /\ SetCall(c, [call[c] EXCEPT !.pc = "failed", !.err = "pin"])
    /\ UNCHANGED <<config, initialized, ipfs, pinningServices, pinned, settled, faults>>

\* pin's catch branch (lines 112-116): log the error, then return.
pinCatches(c) ==
    /\ call[c].pc = "fanout"
    /\ SomeRejected(call[c])
    /\ SetCall(c, pinReturn(call[c]))
    /\ UNCHANGED <<config, initialized, ipfs, pinningServices, pinned, settled, faults>>

\* ------------------------------------------------------------ addAsset
\* addAsset(filename, assetData) up to its first await (lines 68-69).
addAsset(c, assetData) ==
    /\ CanStart(c)
    /\ ~ViaFactory \/ c > 1
    /\ SetCall(c, initCall([Begin(c, "addAsset") EXCEPT !.data = assetData]))
    /\ UNCHANGED <<config, initialized, ipfs, pinningServices, pinned, settled, faults>>

\* this.ipfs.add is requested (lines 78-81).
ipfsAdd(r) == [r EXCEPT !.pc = "add"]

\* addAsset after `await this.init()` (lines 72-78): read the file when no
\* data was given, else submit the data.
addAssetAfterInit(c) ==
    /\ call[c].pc = "initDone"
    /\ call[c].op = "addAsset"
    /\ ~call[c].inPin
    /\ SetCall(c, IF call[c].data = NoData
                  THEN [call[c] EXCEPT !.pc = "readFile"]
                  ELSE ipfsAdd(call[c]))
    /\ UNCHANGED <<config, initialized, ipfs, pinningServices, pinned, settled, faults>>

\* Mutant: a failed read is ignored and the (missing) data is submitted.
readFileSettlesSwallows(c, ok, content) ==
    /\ Settles(ok)
    /\ call[c].pc = "readFile"
    /\ SetCall(c, IF ok
                  THEN ipfsAdd([call[c] EXCEPT !.data = content])
                  ELSE ipfsAdd([call[c] EXCEPT !.err = "io"]))
    /\ UNCHANGED <<config, initialized, ipfs, pinningServices, pinned>>

\* fs.readFile settles (line 74).
readFileSettles(c, ok, content) ==
    /\ Settles(ok)
    /\ call[c].pc = "readFile"
    /\ SetCall(c, IF ok
                  THEN ipfsAdd([call[c] EXCEPT !.data = content])
                  ELSE [call[c] EXCEPT !.pc = "failed", !.err = "io"])
    /\ UNCHANGED <<config, initialized, ipfs, pinningServices, pinned>>

\* this.ipfs.add settles; on success addAsset calls this.pin(asset.cid),
\* which runs up to its `await this.init()` (lines 78-86, 95-96).
ipfsAddSettles(c, ok) ==
    /\ Settles(ok)
    /\ call[c].pc = "add"
    /\ SetCall(c, IF ok
                  THEN initCall([call[c] EXCEPT !.cid = CidOf(call[c].data),
                                                !.inPin = TRUE])
                  ELSE [call[c] EXCEPT !.pc = "failed", !.err = "add"])
    /\ UNCHANGED <<config, initialized, ipfs, pinningServices, pinned>>

\* ------------------------------------------------------------ get
\* get(cidOrURI) up to its await (lines 134-140): no init() call; reading
\* this.ipfs.cat of an undefined this.ipfs throws.
getBody(r, cidOrURI) ==
    IF ipfs = 0
    THEN [r EXCEPT !.arg = cidOrURI, !.cid = StripScheme(cidOrURI),
                   !.pc = "failed", !.err = "type"]
    ELSE [r EXCEPT !.arg = cidOrURI, !.cid = StripScheme(cidOrURI),
                   !.pc = "cat"]

get(c, cidOrURI) ==
    /\ CanStart(c)
    /\ ~ViaFactory \/ c > 1
    /\ SetCall(c, getBody(Begin(c, "get"), cidOrURI))
    /\ UNCHANGED <<config, initialized, ipfs, pinningServices, pinned, settled, faults>>

\* getString: get, then decode as text (lines 143-146).
getString(c, cidOrURI) ==
    /\ CanStart(c)
    /\ ~ViaFactory \/ c > 1
    /\ SetCall(c, getBody(Begin(c, "getString"), cidOrURI))
    /\ UNCHANGED <<config, initialized, ipfs, pinningServices, pinned, settled, faults>>

\* getBase64String: get, then encode as base64 (lines 148-151).
getBase64String(c, cidOrURI) ==
    /\ CanStart(c)
    /\ ~ViaFactory \/ c > 1
    /\ SetCall(c, getBody(Begin(c, "getBase64String"), cidOrURI))
    /\ UNCHANGED <<config, initialized, ipfs, pinningServices, pinned, settled, faults>>

\* this.ipfs.cat settles (line 140).
catSettles(c, ok) ==
    /\ Settles(ok)
    /\ call[c].pc = "cat"
    /\ SetCall(c, IF ok
                  THEN [call[c] EXCEPT !.pc = "done"]
                  ELSE [call[c] EXCEPT !.pc = "failed", !.err = "cat"])
    /\ UNCHANGED <<config, initialized, ipfs, pinningServices, pinned>>

\* ------------------------------------------------------------ specification
Next ==
    \E c \in Calls :
        \/ init(c)
        \/ MakeAssetStorage(c)
        \/ \E ok \in BOOLEAN : IPFSCreateSettles(c, ok)
        \/ \E ok \in BOOLEAN : ServiceAddSettles(c, ok)
        \/ initReturns(c)
        \/ \E cid \in CIDs : pin(c, cid)
        \/ pinAfterInit(c)
        \/ \E i \in 1..(NumCalls * MaxServices), ok \in BOOLEAN : lsSettles(c, i, ok)
        \/ \E i \in 1..(NumCalls * MaxServices), ok \in BOOLEAN : remoteAddSettles(c, i, ok)
        \/ pinResolves(c)
        \/ pinCatches(c)
        \/ \E assetData \in Contents \cup {NoData} : addAsset(c, assetData)
        \/ addAssetAfterInit(c)
        \/ \E ok \in BOOLEAN, content \in Contents : readFileSettles(c, ok, content)
        \/ \E ok \in BOOLEAN : ipfsAddSettles(c, ok)
        \/ \E uri \in URIs : get(c, uri)
        \/ \E uri \in URIs : getString(c, uri)
        \/ \E uri \in URIs : getBase64String(c, uri)
        \/ \E ok \in BOOLEAN : catSettles(c, ok)

Spec == Init /\ [][Next]_vars

\* ------------------------------------------------------------ properties
RECURSIVE SumCreate(_)
SumCreate(n) == IF n = 0 THEN 0 ELSE call[n].nCreate + SumCreate(n - 1)

\* IPFS.create requests issued so far, by all calls.
CreateCalls == SumCreate(NumCalls)

\* pin.remote.service.add requests issued so far for the k-th configured
\* service: one by every call whose registration loop reached position k.
ServiceAddCalls(k) == Cardinality({c \in Calls : call[c].idx >= k})

\* C1: however many init, addAsset and pin calls are made on one instance,
\* also while an earlier initialization is suspended, node creation is
\* requested at most once and each configured service is registered at most
\* once.
C1_InitRunsOnce ==
    /\ CreateCalls <= 1
    /\ \A k \in 1..Len(config) : ServiceAddCalls(k) <= 1

\* C2: when addAsset resolves with identifier X on a store with one or more
\* registered services, X is pinned on every registered service at that
\* moment.
C2_AddAssetFullyPinned ==
    [][\A c \in Calls :
          (/\ call[c].op = "addAsset"
           /\ call[c].pc # "done"
           /\ call'[c].pc = "done"
           /\ Len(pinningServices') >= 1)
          => \A i \in 1..Len(pinningServices') :
                 <<call'[c].cid, pinningServices'[i]>> \in pinned']_vars

\* C3: once pin has returned to its caller, no query or pin request that the
\* call started is still in flight.
C3_PinReturnsAfterAllSettled ==
    \A c \in Calls :
        (call[c].inPin /\ call[c].pc = "done") => ~InFlight(call[c])

\* C4: the step that runs pin's fan-out issues a query to every registered
\* service, in list order; and whenever a query of the call answers that
\* there is no pin record, the pin request follows, whatever state the call
\* and its other promises are in.
C4_FanOutComplete ==
    [][\A c \in Calls :
          /\ (/\ call[c].pc = "initDone"
              /\ call[c].inPin
              /\ call'[c].pc # "initDone"
              /\ Len(pinningServices) >= 1)
             => /\ call'[c].targets = pinningServices
                /\ Len(call'[c].sub) = Len(pinningServices)
                /\ \A i \in 1..Len(pinningServices) : call'[c].sub[i] = "query"
          /\ \A i \in 1..Len(call[c].sub) :
                (/\ call[c].sub[i] = "query"
                 /\ call'[c].sub[i] \notin {"query", "failed"}
                 /\ RemoteLs(call[c].cid, call[c].targets[i]) = {})
                => call'[c].sub[i] = "pinning"]_vars

\* One promise of a call has failed, the call has returned, and the pin
\* request to another service has still been issued.
C4_Witness ==
    \E c \in Calls : \E i, j \in 1..Len(call[c].sub) :
        /\ Len(call[c].sub) = Len(config)
        /\ call[c].targets[i] # call[c].targets[j]
        /\ call[c].sub[i] = "failed"
        /\ call[c].sub[j] = "pinning"
        /\ call[c].pc = "done"

\* C5: a pin request to a service is issued only by the step in which the
\* call's query to that service answers, and only when the service holds no
\* pin record for the identifier; a call against a service that already
\* holds the record issues none.
C5_PinOnlyIfUnpinned ==
    [][\A c \in Calls : \A i \in 1..Len(call'[c].sub) :
          (/\ call'[c].sub[i] = "pinning"
           /\ ~(i \in 1..Len(call[c].sub) /\ call[c].sub[i] = "pinning"))
          => /\ i \in 1..Len(call[c].sub)
             /\ call[c].sub[i] = "query"
             /\ <<call[c].cid, call[c].targets[i]>> \notin pinned]_vars

\* A second pin of an identifier a first call has pinned: its promise for
\* that service ended without a pin request.
C5_Witness ==
    \E c, d \in Calls : \E i \in 1..Len(call[c].sub), j \in 1..Len(call[d].sub) :
        /\ c # d
        /\ call[c].cid = call[d].cid
        /\ call[c].targets[i] = call[d].targets[j]
        /\ call[c].sub[i] = "pinned"
        /\ call[d].sub[j] = "skipped"
        /\ call[d].pc = "done"

\* C6: a pin that finds no registered service completes without error and
\* has issued no query and no pin request.
C6_NoBackendNoOp ==
    \A c \in Calls :
        (/\ call[c].inPin
         /\ call[c].pc \in {"fanout", "done", "failed"}
         /\ call[c].err # "init"
         /\ call[c].targets = <<>>)
        => /\ call[c].pc = "done"
           /\ call[c].err = "none"
           /\ call[c].sub = <<>>

C6_Witness ==
    \E c \in Calls :
        /\ call[c].op = "pin"
        /\ call[c].pc = "done"
        /\ pinningServices = <<>>
        /\ initialized

\* C7: an addAsset or pin call made after an initialization attempt has
\* failed requests no node creation, no registration, no file read, no add,
\* no query and no pin request.
C7_FailsFastAfterInitFailure ==
    \A c \in Calls :
        (call[c].afterFail /\ call[c].op \in {"addAsset", "pin"})
        => /\ call[c].nCreate = 0
           /\ call[c].idx = 0
           /\ call[c].pc \notin {"readFile", "add", "fanout"}
           /\ call[c].sub = <<>>

\* C8: an operation whose initialization failed has failed with that error
\* and has done nothing after it: nothing was submitted to the node, no
\* query and no pin request was issued.
C8_InitFailureSurfaces ==
    \A c \in Calls :
        call[c].err = "init"
        => /\ call[c].pc = "failed"
           /\ call[c].sub = <<>>
           /\ call[c].targets = <<>>
           /\ call[c].op = "addAsset" => call[c].cid = NoCid

\* An addAsset whose initialization failed at a backend registration.
C8_Witness ==
    \E c \in Calls :
        /\ call[c].op = "addAsset"
        /\ call[c].err = "init"
        /\ call[c].idx >= 1

\* C9: a read operation requests content from the node only while the
\* instance is initialized.
C9_ReadsEnsureInit ==
    [][\A c \in Calls :
          (call[c].pc # "cat" /\ call'[c].pc = "cat") => initialized]_vars

\* C10: the list of registered service names never holds a name twice.
C10_UniqueServiceNames ==
    \A i, j \in 1..Len(pinningServices) :
        i # j => pinningServices[i] # pinningServices[j]

\* The read operations.
Reads == {"get", "getString", "getBase64String"}

\* The call has requested content from the node: cid is the identifier it
\* passed to this.ipfs.cat.
HasRead(r) == r.op \in Reads /\ (r.pc \in {"cat", "done"} \/ r.err = "cat")

\* C11: a read given "ipfs://X" for an identifier X reads the node with X,
\* as a read given "X" does; an input that does not start with the scheme is
\* passed to the node as it is.
C11_URITolerance ==
    /\ \A c \in Calls :
          HasRead(call[c])
          => /\ \A x \in CIDs : call[c].arg = Scheme \o x => call[c].cid = x
             /\ \A x \in CIDs : call[c].arg = x => call[c].cid = x
             /\ ~StartsWith(call[c].arg, Scheme) => call[c].cid = call[c].arg
    /\ \A c, d \in Calls :
          (/\ call[c].op \in Reads
           /\ call[d].op \in Reads
           /\ call[d].arg \in CIDs
           /\ call[c].arg = Scheme \o call[d].arg)
          => call[c].cid = call[d].cid

\* A read given the full URI of X has read the node with X.
C11_Witness ==
    \E c \in Calls :
        /\ HasRead(call[c])
        /\ call[c].pc = "done"
        /\ call[c].arg = Scheme \o <<"X">>
        /\ call[c].cid = <<"X">>

\* C12: an addAsset whose file read failed has failed with the I/O error,
\* has submitted nothing to the node and has started no pin; and the file
\* is read only by an addAsset that was given no data.
C12_ReadFailureSurfaces ==
    \A c \in Calls :
        /\ call[c].err = "io"
           => /\ call[c].op = "addAsset"
              /\ call[c].pc = "failed"
              /\ call[c].cid = NoCid
              /\ ~call[c].inPin
              /\ call[c].sub = <<>>
        /\ call[c].pc = "readFile" => call[c].data = NoData

\* An addAsset without data whose file read failed.
C12_Witness ==
    \E c \in Calls :
        /\ call[c].op = "addAsset"
        /\ call[c].err = "io"
        /\ call[c].pc = "failed"

C14_RegistrationFailureAborts ==
    [][\A c \in Calls :
          /\ (call[c].pc = "register" /\ call'[c] # call[c] /\ faults' # faults)
             => /\ call'[c].pc = "failed"
                /\ call'[c].err = "init"
                /\ call'[c].idx = call[c].idx
                /\ pinningServices' = pinningServices
                /\ initialized' = initialized
          /\ call[c].err = "init" => call'[c] = call[c]]_vars

\* The only run of init failed at a registration before the last configured
\* backend: the later backend was never tried, the failed name is not in the
\* list and the flag is not set.
C14_Witness ==
    \E c \in Calls :
        /\ call[c].err = "init"
        /\ call[c].idx >= 1
        /\ call[c].idx < Len(config)
        /\ \A d \in Calls \ {c} : call[d].nCreate = 0
        /\ pinningServices = SubSeq(config, 1, call[c].idx - 1)
        /\ ~initialized

\* C15: pin calls do not exclude or coalesce each other: when a call's
\* query for an identifier and a backend is answered while another call's
\* pin request for the same identifier and backend is in flight (so the
\* backend has no record yet), the call issues its own pin request as well.
C15_NoCoalescing ==
    [][\A c \in Calls : \A i \in 1..Len(call[c].sub) :
          (/\ call[c].sub[i] = "query"
           /\ call'[c].sub[i] # "query"
           /\ faults' = faults
           /\ ~isPinned(call[c].cid, call[c].targets[i])
           /\ \E d \in Calls \ {c} : \E j \in 1..Len(call[d].sub) :
                 /\ call[d].cid = call[c].cid
                 /\ call[d].targets[j] = call[c].targets[i]
                 /\ call[d].sub[j] = "pinning")
          => call'[c].sub[i] = "pinning"]_vars

\* Two calls have a pin request in flight for the same identifier and the
\* same backend.
C15_Witness ==
    \E c, d \in Calls :
        /\ c # d
        /\ call[c].inPin
        /\ call[d].inPin
        /\ call[c].cid = call[d].cid
        /\ \E i \in 1..Len(call[c].sub) : \E j \in 1..Len(call[d].sub) :
              /\ call[c].targets[i] = call[d].targets[j]
              /\ call[c].sub[i] = "pinning"
              /\ call[d].sub[j] = "pinning"

\* C16: once the flag is set, no step changes the node handle or the list
\* of registered service names.
C16_FrozenAfterInit ==
    [][initialized => (ipfs' = ipfs /\ pinningServices' = pinningServices)]_vars

\* The names of s appear in t in the order of s: the loop of init pushes the
\* configured names in configuration order, other runs may push in between.
RECURSIVE InOrder(_, _)
InOrder(s, t) ==
    IF s = <<>> THEN TRUE
    ELSE IF t = <<>> THEN FALSE
    ELSE IF Head(s) = Head(t) THEN InOrder(Tail(s), Tail(t))
    ELSE InOrder(s, Tail(t))

\* C17: when the flag is set, the node handle is set and the configured
\* service names are in the list of registered names in configuration
\* order; and a pin that got past init fans out to every configured backend,
\* one promise per target.
C17_InitializedMeansReady ==
    /\ initialized => /\ ipfs # 0
                      /\ InOrder(config, pinningServices)
    /\ \A c \in Calls :
          (call[c].inPin /\ call[c].pc \in {"fanout", "done"})
          => /\ InOrder(config, call[c].targets)
             /\ Len(call[c].sub) = Len(call[c].targets)

\* A pin is fanning out on an initialized store with two configured
\* backends.
C17_Witness ==
    /\ initialized
    /\ Len(config) = 2
    /\ \E c \in Calls :
          /\ call[c].pc = "fanout"
          /\ Len(call[c].sub) >= 2

\* C18: on an instance built by MakeAssetStorage, MakeAssetStorage has
\* resolved only with the flag set; every operation a caller has started on
\* the instance found it initialized and has requested neither a node nor a
\* registration; and after a failed initialization no caller has the
\* instance.
C18_FactoryReturnsInitialized ==
    ViaFactory
    => /\ call[1].pc = "done" => initialized
       /\ \A c \in Calls \ {1} :
             call[c].pc # "idle"
             => /\ call[1].pc = "done"
                /\ initialized
                /\ call[c].nCreate = 0
                /\ call[c].idx = 0
                /\ call[c].err # "init"
       /\ call[1].err = "init"
          => /\ call[1].pc = "failed"
             /\ \A c \in Calls \ {1} : call[c].pc = "idle"
       /\ CreateCalls <= 1
       /\ \A k \in 1..Len(config) : ServiceAddCalls(k) <= 1

\* An addAsset or pin on an instance returned by MakeAssetStorage has got
\* past its init call.
C18_Witness ==
    /\ ViaFactory
    /\ call[1].pc = "done"
    /\ Len(config) >= 1
    /\ \E c \in Calls \ {1} :
          /\ call[c].inPin
          /\ call[c].pc \in {"fanout", "done"}

====
